---- MODULE Spec2Model ----
(***************************************************************************)
(* A model of cli::Parser (src/cli_parser.h): the option registry          *)
(* (addOption, operator()), Option::value, the single-pass parse loop and   *)
(* the word-wrap helper splitWords.                                         *)
(*                                                                          *)
(* Strings that the code indexes (splitWords) are sequences of one-         *)
(* character strings; tokens and aliases that the code only compares are    *)
(* TLA+ strings.  argv holds argv[1..argc-1]: argv[0], the program name, is *)
(* never read by parse, so the C index i is the index into this sequence    *)
(* and argc = Len(argv) + 1.                                                *)
(***************************************************************************)
EXTENDS Integers, Sequences, FiniteSets, TLC

\* ------------------------------------------------------------ bounds
\* Number of options a run registers at most.
MaxOptions == 2
\* Number of tokens a run hands to parse at most, over all its parse calls.
MaxTokens == 4
\* Longest text handed to splitWords.
MaxText == 5
\* Largest width handed to splitWords.
MaxWidth == 3

\* ------------------------------------------------------------ inputs
\* The tokens a command line is made of: two ordinary spellings and one
\* reserved help spelling.  Any of them can stand where a slot value is read.
Tokens == {"-a", "-b", "-h"}

\* The Option constructor calls a run chooses from.  The validators are none
\* ("nullptr"), one that accepts every occurrence ("accept", as the sample's
\* -v validator does) and one that reads the option's captured values and
\* rejects the value "-b" ("notB").  Two of the options share an alias with
\* another, and one carries a reserved help spelling.
OptionInputs ==
    { [opts |-> <<"-a", "-b">>, mandatory |-> TRUE,  args |-> <<"s1">>,
       validator |-> "notB"],
      [opts |-> <<"-b">>,       mandatory |-> TRUE,  args |-> <<"s1", "s2">>,
       validator |-> "nullptr"],
      [opts |-> <<"-h", "-a">>, mandatory |-> FALSE, args |-> <<>>,
       validator |-> "accept"] }

\* The aliases and slot ids a caller looks up.
LookupAliases == {"-a", "-b"}
LookupIds == {"s1", "s2", "zz"}

\* ------------------------------------------------------------ outcomes
PARSED_OK == "PARSED_OK"
PARSED_HELP == "PARSED_HELP"
PARSED_FAILED == "PARSED_FAILED"
PARSED_FAILED_VALIDATOR == "PARSED_FAILED_VALIDATOR"
\* parse has not returned.
Running == "running"

\* What a parse call wrote to std::cout / std::cerr.
NoDiag == [kind |-> "none", what |-> "", param |-> ""]
HelpText == [kind |-> "help", what |-> "", param |-> ""]
InvalidArgument(arg) == [kind |-> "invalid", what |-> arg, param |-> ""]
MissingArgument(id, arg) == [kind |-> "missing", what |-> id, param |-> arg]
MandatoryNotProvided(name) == [kind |-> "mandatory", what |-> name, param |-> ""]

\* ------------------------------------------------------------ Option
SetOf(s) == {s[j] : j \in 1..Len(s)}

Min(S) == CHOOSE m \in S : \A n \in S : m <= n

\* std::map::insert keeps the first index inserted for an id.
ArgsMap(ids) == [id \in SetOf(ids) |-> Min({j \in 1..Len(ids) : ids[j] = id})]

\* Option::Option: the slots start with the empty std::string, mProvided false.
NewOption(in) ==
    [mOpts |-> in.opts,
     mMandatory |-> in.mandatory,
     mArgsRef |-> [j \in 1..Len(in.args) |-> [mId |-> in.args[j], mValue |-> ""]],
     mArgsMap |-> ArgsMap(in.args),
     mProvided |-> FALSE,
     mValidator |-> in.validator]

checkMandatory(opt) == ~opt.mMandatory \/ opt.mProvided

\* The call opt->mValidator(*opt) of a non-null validator.
CallValidator(opt) ==
    CASE opt.mValidator = "accept" -> TRUE
      [] opt.mValidator = "notB" ->
            \A j \in 1..Len(opt.mArgsRef) : opt.mArgsRef[j].mValue # "-b"

\* A call's exceptional outcome: exc names the ParsingException raised.
NoExc == "none"
Returned(v) == [exc |-> NoExc, val |-> v]
Raised(msg) == [exc |-> msg, val |-> ""]

\* value reading the first slot whatever the id's index.
valueFirstSlot(opt, id) ==
    IF id \notin DOMAIN opt.mArgsMap
    THEN Raised("Invalid Argument")
    ELSE Returned(opt.mArgsRef[1].mValue)

\* value returning an empty string for an id that is no slot of the option.
valueNoThrow(opt, id) ==
    IF id \notin DOMAIN opt.mArgsMap
    THEN Returned("")
    ELSE Returned(opt.mArgsRef[opt.mArgsMap[id]].mValue)

\* Option::value
value(opt, id) ==
    IF id \notin DOMAIN opt.mArgsMap
    THEN Raised("Invalid Argument")
    ELSE Returned(opt.mArgsRef[opt.mArgsMap[id]].mValue)

\* Parser::operator()(opt).value(id), on the registry (refs, map).
Lookup(refs, map, alias, id) ==
    IF alias \notin DOMAIN map
    THEN Raised("Option Not Found!")
    ELSE value(refs[map[alias]], id)

\* ------------------------------------------------------------ registry
\* The loop of addOption: every alias of the new option is assigned the new
\* element's address, whatever it resolved to before (std::map::operator[]).
RegisterAliases(map, opts, ref) ==
    [a \in (DOMAIN map) \cup SetOf(opts) |->
        IF a \in SetOf(opts) THEN ref ELSE map[a]]

\* ------------------------------------------------------------ parse
IsHelp(arg) == arg = "--help" \/ arg = "-h" \/ arg = "/?"

\* FillSlots reading argv[i + 1] without advancing the cursor.
FillSlotsNoAdvance(args, j, argv, i) ==
    IF Len(args) = 0
    THEN [ok |-> TRUE, args |-> args, i |-> i, missing |-> 0]
    ELSE IF i + 1 >= Len(argv) + 1
         THEN [ok |-> FALSE, args |-> args, i |-> i, missing |-> 1]
         ELSE [ok |-> TRUE,
               args |-> [k \in 1..Len(args) |->
                            [mId |-> args[k].mId, mValue |-> argv[i + 1]]],
               i |-> i, missing |-> 0]

\* The loop over opt->mArgsRef: slot j takes argv[++i]; it stops at the first
\* slot for which no token is left (i + 1 >= argc).
RECURSIVE FillSlots(_, _, _, _)
FillSlots(args, j, argv, i) ==
    IF j > Len(args)
    THEN [ok |-> TRUE, args |-> args, i |-> i, missing |-> 0]
    ELSE IF i + 1 >= Len(argv) + 1
         THEN [ok |-> FALSE, args |-> args, i |-> i, missing |-> j]
         ELSE FillSlots([args EXCEPT ![j].mValue = argv[i + 1]], j + 1, argv, i + 1)

\* ValidateAndMark marking the option provided before the validator runs.
ValidateAndMarkEarly(refs, o, i, log) ==
    LET seen == [opt |-> o,
                 values |-> [j \in 1..Len(refs[o].mArgsRef) |->
                                refs[o].mArgsRef[j].mValue]]
        marked == [refs EXCEPT ![o].mProvided = TRUE]
    IN  IF refs[o].mValidator = "nullptr"
        THEN [refs |-> marked, i |-> i,
              result |-> Running, diag |-> NoDiag, log |-> log]
        ELSE IF ~CallValidator(refs[o])
             THEN [refs |-> marked, i |-> i, result |-> PARSED_FAILED_VALIDATOR,
                   diag |-> NoDiag, log |-> Append(log, seen)]
             ELSE [refs |-> marked, i |-> i,
                   result |-> Running, diag |-> NoDiag, log |-> Append(log, seen)]

\* ValidateAndMark clearing the provided flag when the validator rejects.
ValidateAndMarkClearing(refs, o, i, log) ==
    LET seen == [opt |-> o,
                 values |-> [j \in 1..Len(refs[o].mArgsRef) |->
                                refs[o].mArgsRef[j].mValue]]
    IN  IF refs[o].mValidator = "nullptr"
        THEN [refs |-> [refs EXCEPT ![o].mProvided = TRUE], i |-> i,
              result |-> Running, diag |-> NoDiag, log |-> log]
        ELSE IF ~CallValidator(refs[o])
             THEN [refs |-> [refs EXCEPT ![o].mProvided = FALSE], i |-> i,
                   result |-> PARSED_FAILED_VALIDATOR,
                   diag |-> NoDiag, log |-> Append(log, seen)]
             ELSE [refs |-> [refs EXCEPT ![o].mProvided = TRUE], i |-> i,
                   result |-> Running, diag |-> NoDiag, log |-> Append(log, seen)]

\* The validator call and what follows it, for the matched option o whose
\* slots have been filled: a rejection returns, otherwise the option is
\* marked provided.  log records the validator's invocations.
ValidateAndMark(refs, o, i, log) ==
    LET seen == [opt |-> o,
                 values |-> [j \in 1..Len(refs[o].mArgsRef) |->
                                refs[o].mArgsRef[j].mValue]]
    IN  IF refs[o].mValidator = "nullptr"
        THEN [refs |-> [refs EXCEPT ![o].mProvided = TRUE], i |-> i,
              result |-> Running, diag |-> NoDiag, log |-> log]
        ELSE IF ~CallValidator(refs[o])
             THEN [refs |-> refs, i |-> i, result |-> PARSED_FAILED_VALIDATOR,
                   diag |-> NoDiag, log |-> Append(log, seen)]
             ELSE [refs |-> [refs EXCEPT ![o].mProvided = TRUE], i |-> i,
                   result |-> Running, diag |-> NoDiag, log |-> Append(log, seen)]

\* LoopBody skipping a token that resolves to no option instead of failing.
LoopBodySkipUnknown(refs, map, argv, i, log) ==
    LET arg == argv[i]
    IN  IF IsHelp(arg)
        THEN [refs |-> refs, i |-> i, result |-> PARSED_HELP,
              diag |-> HelpText, log |-> log]
        ELSE IF arg \notin DOMAIN map
        THEN [refs |-> refs, i |-> i, result |-> Running,
              diag |-> NoDiag, log |-> log]
        ELSE LET o == map[arg]
                 f == FillSlots(refs[o].mArgsRef, 1, argv, i)
                 filled == [refs EXCEPT ![o].mArgsRef = f.args]
             IN  IF ~f.ok
                 THEN [refs |-> filled, i |-> f.i, result |-> PARSED_FAILED,
                       diag |-> MissingArgument(refs[o].mArgsRef[f.missing].mId, arg),
                       log |-> log]
                 ELSE ValidateAndMark(filled, o, f.i, log)

\* LoopBody with the alias index consulted before the reserved spellings, so
\* that a registered alias spelled like a help token is matched as an option.
LoopBodyAliasFirst(refs, map, argv, i, log) ==
    LET arg == argv[i]
    IN  IF arg \in DOMAIN map
        THEN LET o == map[arg]
                 f == FillSlots(refs[o].mArgsRef, 1, argv, i)
                 filled == [refs EXCEPT ![o].mArgsRef = f.args]
             IN  IF ~f.ok
                 THEN [refs |-> filled, i |-> f.i, result |-> PARSED_FAILED,
                       diag |-> MissingArgument(refs[o].mArgsRef[f.missing].mId, arg),
                       log |-> log]
                 ELSE ValidateAndMark(filled, o, f.i, log)
        ELSE IF IsHelp(arg)
        THEN [refs |-> refs, i |-> i, result |-> PARSED_HELP,
              diag |-> HelpText, log |-> log]
        ELSE [refs |-> refs, i |-> i, result |-> PARSED_FAILED,
              diag |-> InvalidArgument(arg), log |-> log]

\* One iteration of the for loop of parse, at cursor i.  result is Running
\* when the iteration reaches its end (the loop then does ++i).
LoopBody(refs, map, argv, i, log) ==
    LET arg == argv[i]
    IN  IF IsHelp(arg)
        THEN [refs |-> refs, i |-> i, result |-> PARSED_HELP,
              diag |-> HelpText, log |-> log]
        ELSE IF arg \notin DOMAIN map
        THEN [refs |-> refs, i |-> i, result |-> PARSED_FAILED,
              diag |-> InvalidArgument(arg), log |-> log]
        ELSE LET o == map[arg]
                 f == FillSlots(refs[o].mArgsRef, 1, argv, i)
                 filled == [refs EXCEPT ![o].mArgsRef = f.args]
             IN  IF ~f.ok
                 THEN [refs |-> filled, i |-> f.i, result |-> PARSED_FAILED,
                       diag |-> MissingArgument(refs[o].mArgsRef[f.missing].mId, arg),
                       log |-> log]
                 ELSE ValidateAndMark(filled, o, f.i, log)

\* MandatoryPass reporting the last failing option instead of the first.
MandatoryPassLast(refs, i, log) ==
    LET failing == {o \in 1..Len(refs) : ~checkMandatory(refs[o])}
        last == CHOOSE m \in failing : \A n \in failing : n <= m
    IN  IF failing = {}
        THEN [refs |-> refs, i |-> i, result |-> PARSED_OK,
              diag |-> NoDiag, log |-> log]
        ELSE [refs |-> refs, i |-> i, result |-> PARSED_FAILED,
              diag |-> MandatoryNotProvided(Head(refs[last].mOpts)),
              log |-> log]

\* The loop over mOptionRefs after the scan: the first option, in
\* registration order, that fails checkMandatory is reported by its front
\* alias.
MandatoryPass(refs, i, log) ==
    LET failing == {o \in 1..Len(refs) : ~checkMandatory(refs[o])}
    IN  IF failing = {}
        THEN [refs |-> refs, i |-> i, result |-> PARSED_OK,
              diag |-> NoDiag, log |-> log]
        ELSE [refs |-> refs, i |-> i, result |-> PARSED_FAILED,
              diag |-> MandatoryNotProvided(Head(refs[Min(failing)].mOpts)),
              log |-> log]

\* parse from cursor i to its return.
RECURSIVE Scan(_, _, _, _, _)
Scan(refs, map, argv, i, log) ==
    IF ~(i < Len(argv) + 1)
    THEN MandatoryPass(refs, i, log)
    ELSE LET r == LoopBody(refs, map, argv, i, log)
         IN  IF r.result # Running
             THEN r
             ELSE Scan(r.refs, map, argv, r.i + 1, r.log)

\* A whole call parse(argc, argv) on the registry (refs, map).
parse(refs, map, argv) == Scan(refs, map, argv, 1, <<>>)

\* ------------------------------------------------------------ state
VARIABLES
    mOptionRefs,    \* std::list<Option>, in registration order
    mOptionsMap,    \* alias -> position in mOptionRefs of the Option pointed to
    pc,             \* "idle": no call is running; "scan": inside parse
    argv,           \* the tokens of the current or last parse call
    i,              \* the cursor of the current or last parse call
    result,         \* what the last parse call returned, Running inside it
    diag,           \* what the last parse call printed
    validatorLog,   \* the validator invocations of the current or last parse call
    pre,            \* history: mOptionRefs when the current or last parse call began
    matches,        \* history: the occurrences the call marked provided
    consumed,       \* history: the slots <<option, slot>> a token was stored into
    used,           \* number of tokens handed to parse so far
    call,           \* the lookup made last, if one was made since the last
                    \* addOption or parse call
    ret,            \* what that lookup returned or raised
    value_,         \* splitWords: the text
    width,          \* splitWords: the width
    padStr,         \* splitWords: the padding string
    copy,           \* splitWords: the text left to emit
    padStrInUse,    \* splitWords: the padding of the next line
    ss,             \* splitWords: the characters emitted so far
    wpc             \* splitWords: "loop" inside the call, "done" after it

parserVars == <<mOptionRefs, mOptionsMap, pc, argv, i, result, diag,
                validatorLog, pre, matches, consumed, used>>
lookupVars == <<call, ret>>
wrapVars == <<value_, width, padStr, copy, padStrInUse, ss, wpc>>
vars == <<parserVars, lookupVars, wrapVars>>

\* The token vectors of at most n tokens.
TokenVectors(n) == UNION {[1..k -> Tokens] : k \in 0..n}

NoCall == [op |-> "none", alias |-> "", id |-> ""]

ParserInit ==
    /\ mOptionRefs = <<>>
    /\ mOptionsMap = <<>>
    /\ pc = "idle"
    /\ argv = <<>>
    /\ i = 1
    /\ result = Running
    /\ diag = NoDiag
    /\ validatorLog = <<>>
    /\ pre = <<>>
    /\ matches = <<>>
    /\ consumed = {}
    /\ used = 0
    /\ call = NoCall
    /\ ret = Returned("")

WrapIdle ==
    /\ value_ = <<>>
    /\ width = 1
    /\ padStr = <<>>
    /\ copy = <<>>
    /\ padStrInUse = <<>>
    /\ ss = <<>>
    /\ wpc = "done"

Init == ParserInit /\ WrapIdle

\* ------------------------------------------------------------ actions
\* Parser::addOption (addOptions calls it once per element).
addOption(in) ==
    /\ pc = "idle"
    /\ Len(mOptionRefs) < MaxOptions
    /\ mOptionRefs' = Append(mOptionRefs, NewOption(in))
    /\ mOptionsMap' = RegisterAliases(mOptionsMap, in.opts, Len(mOptionRefs) + 1)
    /\ UNCHANGED <<pc, argv, i, result, diag, validatorLog, pre, matches,
                   consumed, used>>
    /\ call' = NoCall
    /\ ret' = Returned("")
    /\ UNCHANGED wrapVars

\* The entry of parse(argc, argv): the cursor starts at 1.
ParseBegin(tokens) ==
    /\ pc = "idle"
    /\ used + Len(tokens) <= MaxTokens
    /\ pc' = "scan"
    /\ argv' = tokens
    /\ i' = 1
    /\ result' = Running
    /\ diag' = NoDiag
    /\ validatorLog' = <<>>
    /\ pre' = mOptionRefs
    /\ matches' = <<>>
    /\ used' = used + Len(tokens)
    /\ UNCHANGED <<mOptionRefs, mOptionsMap, consumed>>
    /\ call' = NoCall
    /\ ret' = Returned("")
    /\ UNCHANGED wrapVars

\* One iteration of the loop of parse.
ScanToken ==
    /\ pc = "scan"
    /\ i < Len(argv) + 1
    /\ LET r == LoopBody(mOptionRefs, mOptionsMap, argv, i, validatorLog)
           matched == ~IsHelp(argv[i]) /\ argv[i] \in DOMAIN mOptionsMap
       IN  /\ mOptionRefs' = r.refs
           /\ result' = r.result
           /\ diag' = r.diag
           /\ validatorLog' = r.log
           /\ i' = IF r.result = Running THEN r.i + 1 ELSE r.i
           /\ pc' = IF r.result = Running THEN "scan" ELSE "idle"
           /\ matches' = IF matched /\ r.result = Running
                         THEN Append(matches, [pos |-> i, opt |-> mOptionsMap[argv[i]]])
                         ELSE matches
           /\ consumed' = IF matched
                          THEN consumed \cup
                               {<<mOptionsMap[argv[i]], j>> : j \in 1..(r.i - i)}
                          ELSE consumed
    /\ UNCHANGED <<mOptionsMap, argv, pre, used>>
    /\ UNCHANGED <<lookupVars, wrapVars>>

\* The end of the loop of parse: the mandatory check and the return.
MandatoryCheck ==
    /\ pc = "scan"
    /\ ~(i < Len(argv) + 1)
    /\ LET r == MandatoryPass(mOptionRefs, i, validatorLog)
       IN  /\ result' = r.result
           /\ diag' = r.diag
           /\ mOptionRefs' = r.refs
    /\ pc' = "idle"
    /\ UNCHANGED <<mOptionsMap, argv, i, validatorLog, pre, matches, consumed, used>>
    /\ UNCHANGED <<lookupVars, wrapVars>>

\* A caller's options(alias).value(id).
LookupCall(alias, id) ==
    /\ pc = "idle"
    /\ call' = [op |-> "lookup", alias |-> alias, id |-> id]
    /\ ret' = Lookup(mOptionRefs, mOptionsMap, alias, id)
    /\ UNCHANGED <<parserVars, wrapVars>>

Next ==
    \/ \E in \in OptionInputs : addOption(in)
    \/ \E tokens \in TokenVectors(MaxTokens) : ParseBegin(tokens)
    \/ ScanToken
    \/ MandatoryCheck

Spec == Init /\ [][Next]_vars

NextLookup ==
    \/ Next
    \/ \E alias \in LookupAliases, id \in LookupIds : LookupCall(alias, id)

SpecLookup == Init /\ [][NextLookup]_vars

\* ------------------------------------------------------------ splitWords
\* The characters of the texts handed to splitWords.
Chars == {"a", "b", " "}
\* The padding strings handed to splitWords.
Pads == {<<>>, <<" ">>}
\* std::endl
Endl == "\n"

Texts(n) == UNION {[1..k -> Chars] : k \in 0..n}

\* std::string::substr(pos): the characters from the 0-based position pos on.
SubstrFrom(str, pos) == SubSeq(str, pos + 1, Len(str))
\* std::string::substr(0, n): the first n characters, fewer when str is shorter.
SubstrTo(str, n) == SubSeq(str, 1, IF n < Len(str) THEN n ELSE Len(str))

Max(S) == CHOOSE m \in S : \A n \in S : n <= m
\* std::string::npos
npos == -1
\* std::string::find_last_of(' '): the 0-based position of the last space.
FindLastSpace(str) ==
    LET at == {k \in 1..Len(str) : str[k] = " "}
    IN  IF at = {} THEN npos ELSE Max(at) - 1

\* WrapBlock resuming one character too far after a hard break.
WrapBlockDropsChar(c, w, pad) ==
    LET block == SubstrTo(c, w)
        index == FindLastSpace(block)
    IN  IF index # npos
        THEN [out |-> pad \o SubstrTo(block, index) \o <<Endl>>,
              rest |-> SubstrFrom(c, index + 1)]
        ELSE [out |-> pad \o block \o <<Endl>>,
              rest |-> SubstrFrom(c, w + 1)]

\* The body of the while loop of splitWords on the remaining text c:
\* what is written to ss and what is left of the text.
WrapBlock(c, w, pad) ==
    LET block == SubstrTo(c, w)
        index == FindLastSpace(block)
    IN  IF index # npos
        THEN [out |-> pad \o SubstrTo(block, index) \o <<Endl>>,
              rest |-> SubstrFrom(c, index + 1)]
        ELSE [out |-> pad \o block \o <<Endl>>,
              rest |-> SubstrFrom(c, w)]

\* The call splitWords(value, width, padStr) at the top of its loop, on a
\* parser that nothing else is called on.
WrapInit ==
    /\ value_ \in Texts(MaxText)
    /\ width \in 1..MaxWidth
    /\ padStr \in Pads
    /\ copy = value_
    /\ padStrInUse = <<>>
    /\ ss = <<>>
    /\ wpc = "loop"

\* One iteration of the while loop.
WrapStep ==
    /\ wpc = "loop"
    /\ Len(copy) > width
    /\ LET r == WrapBlock(copy, width, padStrInUse)
       IN  /\ ss' = ss \o r.out
           /\ copy' = r.rest
    /\ padStrInUse' = padStr
    /\ UNCHANGED <<value_, width, padStr, wpc>>
    /\ UNCHANGED <<parserVars, lookupVars>>

\* The end of the loop: the last line, and the return of ss.str().
WrapReturn ==
    /\ wpc = "loop"
    /\ ~(Len(copy) > width)
    /\ ss' = ss \o padStrInUse \o copy
    /\ wpc' = "done"
    /\ UNCHANGED <<value_, width, padStr, copy, padStrInUse>>
    /\ UNCHANGED <<parserVars, lookupVars>>

NextWrap ==
    \/ WrapStep
    \/ WrapReturn

\* splitWords runs to its return: no other code runs in between.
InitWrap == ParserInit /\ WrapInit

SpecWrap == InitWrap /\ [][NextWrap]_vars /\ WF_vars(NextWrap)

\* ------------------------------------------------------------ properties
\* The reserved help spellings, as the specification lists them.
HelpSpellings == {"--help", "-h", "/?"}

\* The last parse call has returned.
Returned_ == pc = "idle" /\ result # Running

\* C1, as stated: whenever the scan of a stream gets as far as a token that
\* is a reserved help spelling, parse returns HELP.
C1_HelpWhereverReached ==
    Returned_ =>
        \A h \in 1..Len(argv) :
            (argv[h] \in HelpSpellings /\ h <= i) => result = PARSED_HELP

\* C1, amended: when the matching cursor stands on a reserved help spelling
\* (the token was not taken as a slot value of the option before it), parse
\* returns HELP at that token, whether or not an alias of that spelling is
\* registered and whether or not mandatory options are missing; no option
\* changes, and the registry ends as it does for the stream cut after the
\* help token.
C1_HelpAtCursor ==
    [][ (pc = "scan" /\ i < Len(argv) + 1 /\ argv[i] \in HelpSpellings) =>
            /\ result' = PARSED_HELP
            /\ diag' = HelpText
            /\ pc' = "idle"
            /\ i' = i
            /\ mOptionRefs' = mOptionRefs
            /\ LET cut == parse(pre, mOptionsMap, SubSeq(argv, 1, i))
               IN  cut.result = PARSED_HELP /\ cut.refs = mOptionRefs' ]_vars

\* A parse returned HELP at a token that is also a registered alias, with a
\* mandatory option not provided, tokens matched before it and tokens after it.
C1_Witness ==
    /\ Returned_
    /\ result = PARSED_HELP
    /\ argv[i] \in DOMAIN mOptionsMap
    /\ \E o \in 1..Len(mOptionRefs) :
           mOptionRefs[o].mMandatory /\ ~mOptionRefs[o].mProvided
    /\ matches # <<>>
    /\ i < Len(argv)

\* The options of the registry, by position.
Options == 1..Len(mOptionRefs)

\* The cursor stands on a token that resolves to an option.
AtOption ==
    /\ pc = "scan"
    /\ i < Len(argv) + 1
    /\ argv[i] \notin HelpSpellings
    /\ argv[i] \in DOMAIN mOptionsMap

\* Option o was matched, and marked provided, during the current call.
MatchedNow(o) == \E k \in 1..Len(matches) : matches[k].opt = o

\* The step on which parse returns after scanning the whole stream.
EndOfStream == pc = "scan" /\ ~(i < Len(argv) + 1)

\* C2, as stated: when parse returns after scanning the whole stream, a
\* mandatory option the stream did not match makes it return FAILED, naming
\* the first alias of the first such option; OK only if none was omitted.
C2_OmittedMandatoryFails ==
    [][ EndOfStream =>
            LET omitted == {o \in Options :
                              mOptionRefs[o].mMandatory /\ ~MatchedNow(o)}
            IN  /\ omitted # {} =>
                      /\ result' = PARSED_FAILED
                      /\ diag' = MandatoryNotProvided(
                                     mOptionRefs[Min(omitted)].mOpts[1])
                /\ result' = PARSED_OK => omitted = {} ]_vars

\* C2, amended: when parse returns after scanning the whole stream, a
\* mandatory option that neither this stream matched nor an earlier parse
\* call on the registry left marked provided makes it return FAILED, naming
\* the first alias of the first such option in registration order; it
\* returns OK exactly when there is no such option.
C2_UnprovidedMandatoryFails ==
    [][ EndOfStream =>
            LET omitted == {o \in Options :
                              /\ mOptionRefs[o].mMandatory
                              /\ ~MatchedNow(o)
                              /\ ~pre[o].mProvided}
            IN  /\ omitted # {} =>
                      /\ result' = PARSED_FAILED
                      /\ diag' = MandatoryNotProvided(
                                     mOptionRefs[Min(omitted)].mOpts[1])
                /\ omitted = {} => result' = PARSED_OK
                /\ pc' = "idle" ]_vars

\* A stream was scanned to its end, matched an option, and parse reported a
\* mandatory option of two aliases by its first alias while a mandatory
\* option registered after it was provided.
C2_Witness ==
    /\ Returned_
    /\ result = PARSED_FAILED
    /\ diag.kind = "mandatory"
    /\ matches # <<>>
    /\ \E o, q \in Options :
           /\ o < q
           /\ mOptionRefs[o].mMandatory /\ ~mOptionRefs[o].mProvided
           /\ Len(mOptionRefs[o].mOpts) = 2
           /\ diag.what = mOptionRefs[o].mOpts[1]
           /\ mOptionRefs[q].mMandatory /\ mOptionRefs[q].mProvided

\* C3: when the cursor matches an option of k slots at position i, parse
\* returns FAILED (missing argument) if fewer than k tokens follow; otherwise
\* slot j holds the token at i + j for each j, no other option changes, and
\* unless the validator rejects, matching resumes at i + k + 1.
C3_SlotsTakeNextTokens ==
    [][ AtOption =>
            LET o == mOptionsMap[argv[i]]
                k == Len(mOptionRefs[o].mArgsRef)
            IN  IF Len(argv) - i < k
                THEN /\ result' = PARSED_FAILED
                     /\ diag'.kind = "missing"
                     /\ pc' = "idle"
                ELSE /\ \A j \in 1..k :
                            mOptionRefs'[o].mArgsRef[j].mValue = argv[i + j]
                     /\ \A q \in Options \ {o} : mOptionRefs'[q] = mOptionRefs[q]
                     /\ result' \in {Running, PARSED_FAILED_VALIDATOR}
                     /\ result' = Running => (i' = i + k + 1 /\ pc' = "scan") ]_vars

\* An option of two slots was matched with two different tokens after it and
\* a further token is left at the cursor.
C3_Witness ==
    /\ pc = "scan"
    /\ matches # <<>>
    /\ LET m == matches[Len(matches)]
       IN  /\ Len(mOptionRefs[m.opt].mArgsRef) = 2
           /\ i = m.pos + 3
           /\ i < Len(argv) + 1
           /\ argv[m.pos + 1] # argv[m.pos + 2]
           /\ mOptionRefs[m.opt].mArgsRef[1].mValue = argv[m.pos + 1]
           /\ mOptionRefs[m.opt].mArgsRef[2].mValue = argv[m.pos + 2]

\* The last occurrence of option o among the matches of the current call.
LastMatch(o) == Max({k \in 1..Len(matches) : matches[k].opt = o})

\* C4: when parse returns OK, for every option matched in the stream, looked
\* up by an alias it was matched under, and every slot j of it, value(id of
\* j) returns the token that stood j places after the flag token of the
\* option's last occurrence.
C4_RoundTrip ==
    [][ (pc = "scan" /\ result' = PARSED_OK) =>
            \A k \in 1..Len(matches) :
                LET o == matches[k].opt
                    p == matches[LastMatch(o)].pos
                IN  \A j \in 1..Len(mOptionRefs'[o].mArgsRef) :
                        Lookup(mOptionRefs', mOptionsMap', argv[matches[k].pos],
                               mOptionRefs'[o].mArgsRef[j].mId)
                          = Returned(argv[p + j]) ]_vars

\* parse returned OK for a stream that matched one option twice with
\* different tokens in its first slot, and the lookup yields the later one.
C4_Witness ==
    /\ Returned_
    /\ result = PARSED_OK
    /\ Len(mOptionRefs) = Len(pre)
    /\ \E k1, k2 \in 1..Len(matches) :
           /\ k1 < k2
           /\ matches[k1].opt = matches[k2].opt
           /\ Len(mOptionRefs[matches[k2].opt].mArgsRef) >= 1
           /\ argv[matches[k1].pos + 1] # argv[matches[k2].pos + 1]
           /\ Lookup(mOptionRefs, mOptionsMap, argv[matches[k2].pos],
                     mOptionRefs[matches[k2].opt].mArgsRef[1].mId)
                = Returned(argv[matches[k2].pos + 1])

\* The option o as it stands once the slots of the occurrence at the cursor
\* are filled.
Captured(o) ==
    [mOptionRefs[o] EXCEPT !.mArgsRef =
        [j \in 1..Len(mOptionRefs[o].mArgsRef) |->
            [mId |-> mOptionRefs[o].mArgsRef[j].mId, mValue |-> argv[i + j]]]]

\* The cursor matches an option that declares a validator, with a token for
\* each of its slots.
AtValidatedOccurrence ==
    /\ AtOption
    /\ mOptionRefs[mOptionsMap[argv[i]]].mValidator # "nullptr"
    /\ Len(argv) - i >= Len(mOptionRefs[mOptionsMap[argv[i]]].mArgsRef)

\* What C5 says of every occurrence except the provided flag: the validator
\* runs once, on the freshly captured values, and a rejection returns
\* FAILED_VALIDATOR at once, with nothing printed and no further token read.
ValidatorRunsOnce ==
    LET o == mOptionsMap[argv[i]]
        k == Len(mOptionRefs[o].mArgsRef)
    IN  /\ validatorLog' =
              Append(validatorLog,
                     [opt |-> o, values |-> [j \in 1..k |-> argv[i + j]]])
        /\ ~CallValidator(Captured(o)) =>
              /\ result' = PARSED_FAILED_VALIDATOR
              /\ diag' = NoDiag
              /\ pc' = "idle"
              /\ i' = i + k
        /\ CallValidator(Captured(o)) => result' = Running

\* C5, as stated: at every occurrence of an option with a validator, the
\* validator runs once after the slots are filled, and a rejection returns
\* FAILED_VALIDATOR immediately and leaves the option marked not-provided.
C5_RejectionLeavesNotProvided ==
    [][ AtValidatedOccurrence =>
            /\ ValidatorRunsOnce
            /\ ~CallValidator(Captured(mOptionsMap[argv[i]])) =>
                  ~mOptionRefs'[mOptionsMap[argv[i]]].mProvided ]_vars

\* C5, amended: at every occurrence of an option with a validator, the
\* validator runs once after the slots are filled, and a rejection returns
\* FAILED_VALIDATOR immediately and leaves the option's provided flag as it
\* was before the occurrence: not-provided if no earlier occurrence was
\* accepted, provided otherwise.
C5_RejectionKeepsProvidedFlag ==
    [][ AtValidatedOccurrence =>
            /\ ValidatorRunsOnce
            /\ ~CallValidator(Captured(mOptionsMap[argv[i]])) =>
                  mOptionRefs'[mOptionsMap[argv[i]]].mProvided
                    = mOptionRefs[mOptionsMap[argv[i]]].mProvided ]_vars

\* parse returned FAILED_VALIDATOR at the second occurrence of an option in
\* the stream; the first occurrence had been accepted.
C5_Witness ==
    /\ Returned_
    /\ result = PARSED_FAILED_VALIDATOR
    /\ Len(validatorLog) = 2
    /\ validatorLog[1].opt = validatorLog[2].opt
    /\ mOptionRefs[validatorLog[2].opt].mProvided
    /\ ~pre[validatorLog[2].opt].mProvided

\* C6: a newly registered option is not provided; an option becomes provided
\* only on the step that matches it and passes its validator; a provided
\* option stays provided on every step; and between two parse calls, and on
\* entry to the next, no registered option changes.
C6_ProvidedIsMonotone ==
    [][ /\ \A o \in Options :
              /\ mOptionRefs[o].mProvided => mOptionRefs'[o].mProvided
              /\ (~mOptionRefs[o].mProvided /\ mOptionRefs'[o].mProvided) =>
                    (AtOption /\ mOptionsMap[argv[i]] = o /\ result' = Running)
              /\ pc = "idle" => mOptionRefs'[o] = mOptionRefs[o]
        /\ Len(mOptionRefs') >= Len(mOptionRefs)
        /\ \A o \in 1..Len(mOptionRefs') :
              o \notin Options => ~mOptionRefs'[o].mProvided ]_vars

\* A later parse call on the registry ended in an early exit, and an option
\* that an earlier call had marked provided is still provided.
C6_Witness ==
    /\ Returned_
    /\ result \in {PARSED_HELP, PARSED_FAILED, PARSED_FAILED_VALIDATOR}
    /\ diag.kind # "mandatory"
    /\ \E o \in 1..Len(pre) :
           /\ pre[o].mProvided
           /\ mOptionRefs[o].mProvided
           /\ argv[i] \in SetOf(mOptionRefs[o].mOpts)

\* C7: an unknown token at the cursor makes parse return FAILED (invalid
\* argument) at once, changing no option; and whenever parse returns from
\* inside the scan with a failure, the outcome, the diagnostic and every
\* option are those of the stream cut after the last token read.
C7_FirstFailureAborts ==
    [][ /\ (pc = "scan" /\ i < Len(argv) + 1 /\ argv[i] \notin HelpSpellings
              /\ argv[i] \notin DOMAIN mOptionsMap) =>
              /\ result' = PARSED_FAILED
              /\ diag' = InvalidArgument(argv[i])
              /\ pc' = "idle"
              /\ i' = i
              /\ mOptionRefs' = mOptionRefs
        /\ (pc = "scan" /\ i < Len(argv) + 1 /\ pc' = "idle"
              /\ result' \in {PARSED_FAILED, PARSED_FAILED_VALIDATOR}) =>
              LET cut == parse(pre, mOptionsMap, SubSeq(argv, 1, i'))
              IN  /\ cut.result = result'
                  /\ cut.diag = diag'
                  /\ cut.refs = mOptionRefs'
        /\ (pc = "scan" /\ result' = Running) => pc' = "scan" ]_vars

\* parse returned FAILED for an unknown token while a mandatory option was
\* missing, an option had been matched before it, and the token after it is
\* a registered alias.
C7_Witness ==
    /\ Returned_
    /\ result = PARSED_FAILED
    /\ diag.kind = "invalid"
    /\ matches # <<>>
    /\ i < Len(argv)
    /\ argv[i + 1] \in DOMAIN mOptionsMap
    /\ \E o \in Options : mOptionRefs[o].mMandatory /\ ~mOptionRefs[o].mProvided

\* C8: every alias of every registered option resolves, in the alias index,
\* to that option.
C8_AliasIndexConsistent ==
    \A o \in Options :
        \A a \in SetOf(mOptionRefs[o].mOpts) :
            a \in DOMAIN mOptionsMap /\ mOptionsMap[a] = o

\* The outcomes parse can return.
Outcomes == {PARSED_OK, PARSED_HELP, PARSED_FAILED, PARSED_FAILED_VALIDATOR}

\* C9: a lookup raises "Option Not Found!" exactly when no option carries the
\* alias, and "Invalid Argument" exactly when the option found has no slot of
\* that id; otherwise it returns the value of the slot of that id, which is
\* the empty string if no token was ever stored in it.  A lookup changes
\* nothing in the registry, and a step of parse raises nothing: it continues
\* or returns one of the four outcomes.
C9_LookupChannel ==
    /\ [](call.op = "lookup" =>
            LET owners == {o \in Options : call.alias \in SetOf(mOptionRefs[o].mOpts)}
            IN  IF owners = {}
                THEN ret = Raised("Option Not Found!")
                ELSE LET o == mOptionsMap[call.alias]
                         slots == {j \in 1..Len(mOptionRefs[o].mArgsRef) :
                                      mOptionRefs[o].mArgsRef[j].mId = call.id}
                     IN  IF slots = {}
                         THEN ret = Raised("Invalid Argument")
                         ELSE /\ ret.exc = NoExc
                              /\ \E j \in slots :
                                    /\ ret.val = mOptionRefs[o].mArgsRef[j].mValue
                                    /\ <<o, j>> \notin consumed => ret.val = "")
    /\ [][ /\ call'.op = "lookup" =>
                (mOptionRefs' = mOptionRefs /\ mOptionsMap' = mOptionsMap)
           /\ pc = "scan" =>
                (ret'.exc = NoExc /\ result' \in Outcomes \cup {Running}) ]_vars

\* After a parse that stored tokens, a lookup of a registered alias with an
\* id that is no slot of its option raised "Invalid Argument".
C9_Witness ==
    /\ call.op = "lookup"
    /\ ret = Raised("Invalid Argument")
    /\ Returned_
    /\ consumed # {}

\* The lines of an output, which std::endl separates.
RECURSIVE SplitLines(_)
SplitLines(out) ==
    LET ends == {k \in 1..Len(out) : out[k] = Endl}
    IN  IF ends = {}
        THEN <<out>>
        ELSE <<SubSeq(out, 1, Min(ends) - 1)>>
               \o SplitLines(SubSeq(out, Min(ends) + 1, Len(out)))

\* Line k of the output without its padding: the first line has none.
Content(lines, k) ==
    IF k = 1 THEN lines[1]
    ELSE SubSeq(lines[k], Len(padStr) + 1, Len(lines[k]))

\* A line that is not the last ends at a hard break when it is width
\* characters long, and at a space otherwise.
HardBroken(lines, k) == k < Len(lines) /\ Len(Content(lines, k)) = width

\* The contents from line k on, with one space put back at each break made
\* at a space and nothing at a hard break.
RECURSIVE Rejoin(_, _)
Rejoin(lines, k) ==
    IF k = Len(lines)
    THEN Content(lines, k)
    ELSE Content(lines, k)
           \o (IF HardBroken(lines, k) THEN <<>> ELSE <<" ">>)
           \o Rejoin(lines, k + 1)

\* C10: splitWords returns; in what it returns every line after the first
\* starts with the padding string, no line's content is longer than the
\* width, the contents rejoined give back the text, and a text longer than
\* the width with no space in its first width characters has exactly those
\* characters as its first line.
C10_WrapPreservesText ==
    /\ [](wpc = "done" =>
            LET lines == SplitLines(ss)
            IN  /\ \A k \in 2..Len(lines) :
                      /\ Len(lines[k]) >= Len(padStr)
                      /\ SubSeq(lines[k], 1, Len(padStr)) = padStr
                /\ \A k \in 1..Len(lines) : Len(Content(lines, k)) <= width
                /\ Rejoin(lines, 1) = value_
                /\ (Len(value_) > width
                      /\ \A k \in 1..width : value_[k] # " ") =>
                      (Len(lines) >= 2 /\ lines[1] = SubSeq(value_, 1, width)))
    /\ <>(wpc = "done")

\* splitWords returned at least three lines for a text with no space in its
\* first width characters, with a non-empty padding, one break being a hard
\* break and another a break at a space.
C10_Witness ==
    /\ wpc = "done"
    /\ padStr # <<>>
    /\ Len(value_) > width
    /\ \A k \in 1..width : value_[k] # " "
    /\ LET lines == SplitLines(ss)
       IN  /\ Len(lines) >= 3
           /\ \E k \in 1..(Len(lines) - 1) : HardBroken(lines, k)
           /\ \E k \in 1..(Len(lines) - 1) : ~HardBroken(lines, k)

====
